---- MODULE Spec2Model ----
(***************************************************************************)
(* Failure-reason model and unresolvability classifier of                  *)
(* pkg/scheduler/algorithm/predicates/error.go.                            *)
(*                                                                         *)
(* The heap is a sequence of objects; a pointer is an index into it.  The  *)
(* package initialiser allocates the catalog singletons in declaration     *)
(* order, so the package variable ErrDiskConflict holds address 1, and so  *)
(* on.  Pointer (interface) equality is equality of addresses.             *)
(*                                                                         *)
(* int64 values are kept at their full width as four 16-bit limbs, least   *)
(* significant first, in two's complement.                                 *)
(***************************************************************************)
EXTENDS Integers, Sequences, FiniteSets, TLC

(***************************************************************************)
(* State.                                                                  *)
(***************************************************************************)
VARIABLES
    heap,                                \* the allocated objects, by address
    unresolvablePredicateFailureErrors,  \* the keys of the package's map
    calls,                               \* the goroutines scanning a slice
    out,                                 \* the last call that returned
    made,                                \* the constructor call behind each object
    given,                               \* per object, the last non-empty device type passed
    life,                                \* who made, wrote, published and reads each object
    kubelet                              \* the state of package pkg/kubelet/metrics

vars == <<heap, unresolvablePredicateFailureErrors, calls, out, made, given,
          life, kubelet>>

(***************************************************************************)
(* Bounds of the model.                                                    *)
(***************************************************************************)
MaxObjs == 1        \* objects allocated after package initialisation
MaxLen == 3         \* length of a reasons slice
NumCallers == 2     \* concurrent callers of UnresolvablePredicateExists
MaxConcLen == 2     \* length of a slice scanned concurrently

nil == 0            \* the nil interface value / nil pointer

(***************************************************************************)
(* Fixed-width integers.                                                   *)
(***************************************************************************)
Int64Bits == 64
LimbBase == 2 ^ 16
Int64Limbs == Int64Bits \div 16
WideLimbs == Int64Limbs + 2   \* wide enough for any difference of differences

Limbs(n) == [1..n -> 0..(LimbBase - 1)]

RECURSIVE AddCarry(_, _, _, _)
\* limbs i..Len(a) of a + b + carry, modulo LimbBase ^ Len(a)
AddCarry(a, b, i, carry) ==
    IF i > Len(a) THEN <<>>
    ELSE LET s == a[i] + b[i] + carry
         IN  <<s % LimbBase>> \o AddCarry(a, b, i + 1, s \div LimbBase)

AddN(a, b) == AddCarry(a, b, 1, 0)
NotN(a) == [i \in 1..Len(a) |-> (LimbBase - 1) - a[i]]
OneN(n) == [i \in 1..n |-> IF i = 1 THEN 1 ELSE 0]
ZeroN(n) == [i \in 1..n |-> 0]
NegN(a) == AddN(NotN(a), OneN(Len(a)))
\* a - b modulo LimbBase ^ Len(a): the machine subtraction, wrapping on overflow
SubN(a, b) == AddCarry(a, NotN(b), 1, 1)
IsNegN(a) == a[Len(a)] >= LimbBase \div 2
IsZeroN(a) == \A i \in 1..Len(a) : a[i] = 0

\* sign extension of a to n limbs: the same mathematical integer, wider
Ext(a, n) ==
    [i \in 1..n |-> IF i <= Len(a) THEN a[i]
                    ELSE IF IsNegN(a) THEN LimbBase - 1 ELSE 0]
\* the low n limbs of a: conversion to a narrower integer type
Trunc(a, n) == [i \in 1..n |-> a[i]]
\* a wide value is representable in n limbs
FitsN(a, n) == Ext(Trunc(a, n), Len(a)) = a

\* a small integer as a two's-complement value of n limbs
RECURSIVE NatLimbs(_, _)
NatLimbs(k, n) ==
    IF n = 0 THEN <<>> ELSE <<k % LimbBase>> \o NatLimbs(k \div LimbBase, n - 1)
FromNat(k, n) == NatLimbs(k, n)
FromInt(k, n) ==
    IF k >= 0 THEN FromNat(k, n) ELSE NegN(FromNat(-k, n))

I64(k) == FromInt(k, Int64Limbs)
MinInt64 == [i \in 1..Int64Limbs |-> IF i = Int64Limbs THEN LimbBase \div 2 ELSE 0]
MaxInt64 == NotN(MinInt64)
Sub64(a, b) == SubN(a, b)

\* the mathematical difference of two int64 values, computed without wrapping
MathSub(a, b) == SubN(Ext(a, WideLimbs), Ext(b, WideLimbs))
\* signed comparison of two wide values whose difference cannot wrap
MathLess(a, b) == IsNegN(SubN(Ext(a, WideLimbs + 1), Ext(b, WideLimbs + 1)))

(***************************************************************************)
(* Decimal formatting of integers (fmt's %d verb).                         *)
(***************************************************************************)
Digits == <<"0", "1", "2", "3", "4", "5", "6", "7", "8", "9">>

RECURSIVE DivTen(_, _, _)
\* long division by ten of the unsigned value a, from limb i down to limb 1,
\* with incoming remainder r: <<quotient limbs most significant first, remainder>>
DivTen(a, i, r) ==
    IF i = 0 THEN <<<<>>, r>>
    ELSE LET cur == r * LimbBase + a[i]
             rest == DivTen(a, i - 1, cur % 10)
         IN  <<<<cur \div 10>> \o rest[1], rest[2]>>

Reverse(s) == [i \in 1..Len(s) |-> s[Len(s) + 1 - i]]

RECURSIVE FormatUnsigned(_)
FormatUnsigned(a) ==
    LET d == DivTen(a, Len(a), 0)
        q == Reverse(d[1])
    IN  IF IsZeroN(q) THEN Digits[d[2] + 1]
        ELSE FormatUnsigned(q) \o Digits[d[2] + 1]

\* %d of a signed value: a minus sign and the magnitude taken as unsigned
FormatInt(a) ==
    IF IsNegN(a) THEN "-" \o FormatUnsigned(NegN(a)) ELSE FormatUnsigned(a)

(***************************************************************************)
(* Objects.                                                                *)
(***************************************************************************)
\* newPredicateFailureError: the object the constructor allocates
newPredicateFailureError(predicateName, predicateDesc) ==
    [kind |-> "PredicateFailureError",
     PredicateName |-> predicateName, PredicateDesc |-> predicateDesc]

\* a constructor that refuses amounts below zero and stores zero instead
NewInsufficientResourceErrorChecked(resourceName, requested, used, capacity) ==
    LET atLeastZero(x) == IF IsNegN(x) THEN ZeroN(Len(x)) ELSE x
    IN  [kind |-> "InsufficientResourceError",
         ResourceName |-> resourceName, requested |-> atLeastZero(requested),
         used |-> atLeastZero(used), capacity |-> atLeastZero(capacity),
         GpuType |-> ""]

\* NewInsufficientResourceError: GpuType is left at its zero value
NewInsufficientResourceError(resourceName, requested, used, capacity) ==
    [kind |-> "InsufficientResourceError",
     ResourceName |-> resourceName, requested |-> requested,
     used |-> used, capacity |-> capacity, GpuType |-> ""]

NewFailureReason(msg) == [kind |-> "FailureReason", reason |-> msg]

(***************************************************************************)
(* The package variables: the address each one holds after package         *)
(* initialisation, which allocates the singletons in declaration order.    *)
(***************************************************************************)
ErrDiskConflict == 1
ErrVolumeZoneConflict == 2
ErrNodeSelectorNotMatch == 3
ErrPodAffinityNotMatch == 4
ErrPodAffinityRulesNotMatch == 5
ErrPodAntiAffinityRulesNotMatch == 6
ErrExistingPodsAntiAffinityRulesNotMatch == 7
ErrTaintsTolerationsNotMatch == 8
ErrPodNotMatchHostName == 9
ErrPodNotFitsHostPorts == 10
ErrNodeLabelPresenceViolated == 11
ErrServiceAffinityViolated == 12
ErrMaxVolumeCountExceeded == 13
ErrNodeUnderMemoryPressure == 14
ErrNodeUnderDiskPressure == 15
ErrNodeUnderPIDPressure == 16
ErrNodeNotReady == 17
ErrNodeNetworkUnavailable == 18
ErrNodeUnschedulable == 19
ErrNodeUnknownCondition == 20
ErrVolumeNodeConflict == 21
ErrVolumeBindConflict == 22
ErrTopologySpreadConstraintsNotMatch == 23
ErrFakePredicate == 24

\* the arguments of the constructor calls of lines 35-82, in order
CatalogDecl ==
    << <<"NoDiskConflict",
           "node(s) had no available disk">>,
       <<"NoVolumeZoneConflict",
           "node(s) had no available volume zone">>,
       <<"MatchNodeSelector",
           "node(s) didn't match node selector">>,
       <<"MatchInterPodAffinity",
           "node(s) didn't match pod affinity/anti-affinity">>,
       <<"PodAffinityRulesNotMatch",
           "node(s) didn't match pod affinity rules">>,
       <<"PodAntiAffinityRulesNotMatch",
           "node(s) didn't match pod anti-affinity rules">>,
       <<"ExistingPodsAntiAffinityRulesNotMatch",
           "node(s) didn't satisfy existing pods anti-affinity rules">>,
       <<"PodToleratesNodeTaints",
           "node(s) had taints that the pod didn't tolerate">>,
       <<"HostName",
           "node(s) didn't match the requested hostname">>,
       <<"PodFitsHostPorts",
           "node(s) didn't have free ports for the requested pod ports">>,
       <<"CheckNodeLabelPresence",
           "node(s) didn't have the requested labels">>,
       <<"CheckServiceAffinity",
           "node(s) didn't match service affinity">>,
       <<"MaxVolumeCount",
           "node(s) exceed max volume count">>,
       <<"NodeUnderMemoryPressure",
           "node(s) had memory pressure">>,
       <<"NodeUnderDiskPressure",
           "node(s) had disk pressure">>,
       <<"NodeUnderPIDPressure",
           "node(s) had pid pressure">>,
       <<"NodeNotReady",
           "node(s) were not ready">>,
       <<"NodeNetworkUnavailable",
           "node(s) had unavailable network">>,
       <<"NodeUnschedulable",
           "node(s) were unschedulable">>,
       <<"NodeUnknownCondition",
           "node(s) had unknown conditions">>,
       <<"VolumeNodeAffinityConflict",
           "node(s) had volume node affinity conflict">>,
       <<"VolumeBindingNoMatch",
           "node(s) didn't find available persistent volumes to bind">>,
       <<"EvenPodsSpreadNotMatch",
           "node(s) didn't match pod topology spread constraints">>,
       <<"FakePredicateError",
           "Nodes failed the fake predicate">> >>

\* the heap after package initialisation
CatalogHeap ==
    [a \in 1..Len(CatalogDecl) |->
        newPredicateFailureError(CatalogDecl[a][1], CatalogDecl[a][2])]

\* the constructor call that allocated each catalog object
CatalogMade ==
    [a \in 1..Len(CatalogDecl) |->
        [op |-> "newPredicateFailureError", arg |-> CatalogDecl[a]]]

CatalogAddrs == 1..Len(CatalogHeap)

\* a map that lacks the last entry
UnresolvableInitShort ==
    (1..Len(CatalogHeap)) \ {ErrDiskConflict, ErrPodAffinityNotMatch,
        ErrPodAntiAffinityRulesNotMatch, ErrExistingPodsAntiAffinityRulesNotMatch,
        ErrPodNotFitsHostPorts, ErrServiceAffinityViolated, ErrMaxVolumeCountExceeded,
        ErrTopologySpreadConstraintsNotMatch, ErrFakePredicate, ErrVolumeBindConflict}

\* a map that also holds the inter-pod-affinity failure
UnresolvableInitWide ==
    (1..Len(CatalogHeap)) \ {ErrDiskConflict,
        ErrPodAntiAffinityRulesNotMatch, ErrExistingPodsAntiAffinityRulesNotMatch,
        ErrPodNotFitsHostPorts, ErrServiceAffinityViolated, ErrMaxVolumeCountExceeded,
        ErrTopologySpreadConstraintsNotMatch, ErrFakePredicate}

\* the keys of the map unresolvablePredicateFailureErrors after initialisation
UnresolvableInit ==
    { ErrNodeSelectorNotMatch,
      ErrPodAffinityRulesNotMatch,
      ErrPodNotMatchHostName,
      ErrTaintsTolerationsNotMatch,
      ErrNodeLabelPresenceViolated,
      ErrNodeNotReady,
      ErrNodeNetworkUnavailable,
      ErrNodeUnderDiskPressure,
      ErrNodeUnderPIDPressure,
      ErrNodeUnderMemoryPressure,
      ErrNodeUnschedulable,
      ErrNodeUnknownCondition,
      ErrVolumeZoneConflict,
      ErrVolumeNodeConflict,
      ErrVolumeBindConflict }

(***************************************************************************)
(* Methods.  e is the object the receiver points to.                       *)
(***************************************************************************)
\* the last two arguments of Sprintf the other way round
InsufficientResourceError_ErrorSwapped(e) ==
    "Node didn't have enough resource: " \o e.ResourceName
        \o ", requested: " \o FormatInt(e.requested)
        \o ", used: " \o FormatInt(e.capacity)
        \o ", capacity: " \o FormatInt(e.used)

\* (e *InsufficientResourceError) Error
InsufficientResourceError_Error(e) ==
    "Node didn't have enough resource: " \o e.ResourceName
        \o ", requested: " \o FormatInt(e.requested)
        \o ", used: " \o FormatInt(e.used)
        \o ", capacity: " \o FormatInt(e.capacity)

\* (e *InsufficientResourceError) GetReason
InsufficientResourceError_GetReason(e) == "Insufficient " \o e.ResourceName

\* a shortfall that is never reported below zero
GetInsufficientAmountClamped(e) ==
    LET d == Sub64(e.requested, Sub64(e.capacity, e.used))
    IN  IF IsNegN(d) THEN ZeroN(Int64Limbs) ELSE d

GetInsufficientAmount(e) == Sub64(e.requested, Sub64(e.capacity, e.used))

\* the operands the other way round
GetFreeAmountSwapped(e) == Sub64(e.used, e.capacity)

GetFreeAmount(e) == Sub64(e.capacity, e.used)

\* an assignment to the neighbouring string field, the resource name
SetGpuTypeIntoName(e, gpuType) ==
    IF gpuType # "" THEN [e EXCEPT !.ResourceName = gpuType] ELSE e

\* an assignment without the test of the argument
SetGpuTypeAlways(e, gpuType) == [e EXCEPT !.GpuType = gpuType]

\* the object after SetGpuType; the method returns its receiver
SetGpuType(e, gpuType) ==
    IF gpuType # "" THEN [e EXCEPT !.GpuType = gpuType] ELSE e

\* (e *PredicateFailureError) Error
PredicateFailureError_Error(e) == "Predicate " \o e.PredicateName \o " failed"

\* a GetReason that returns the other field
PredicateFailureError_GetReasonName(e) == e.PredicateName

\* (e *PredicateFailureError) GetReason
PredicateFailureError_GetReason(e) == e.PredicateDesc

\* a GetReason that fills in a text when there is none
FailureReason_GetReasonDefault(e) ==
    IF e.reason = "" THEN "unknown" ELSE e.reason

\* (e *FailureReason) GetReason
FailureReason_GetReason(e) == e.reason

\* PredicateFailureReason.GetReason, dispatched on the dynamic type
GetReason(e) ==
    CASE e.kind = "InsufficientResourceError" -> InsufficientResourceError_GetReason(e)
      [] e.kind = "PredicateFailureError" -> PredicateFailureError_GetReason(e)
      [] e.kind = "FailureReason" -> FailureReason_GetReason(e)

\* the error interface: FailureReason has no Error method
HasError(e) == e.kind \in {"InsufficientResourceError", "PredicateFailureError"}
Error(e) ==
    CASE e.kind = "InsufficientResourceError" -> InsufficientResourceError_Error(e)
      [] e.kind = "PredicateFailureError" -> PredicateFailureError_Error(e)

\* a lookup that compares the objects pointed to instead of the pointers
IsUnresolvableByContent(r, set) == \E m \in set : heap[m] = heap[r]

\* the map lookup of line 110: the key is the interface value, a pointer
IsUnresolvable(r, set) == r \in set

RECURSIVE ScanFromKeepGoing(_, _, _)
\* a loop that remembers the match and keeps going: it returns the last one
ScanFromKeepGoing(reasons, i, set) ==
    IF i > Len(reasons) THEN nil
    ELSE LET later == ScanFromKeepGoing(reasons, i + 1, set)
         IN  IF later # nil THEN later
             ELSE IF IsUnresolvable(reasons[i], set) THEN reasons[i]
             ELSE nil

RECURSIVE ScanFromZeroValue(_, _, _)
\* a loop that answers "not found" with a reason whose text is empty
ScanFromZeroValue(reasons, i, set) ==
    IF i > Len(reasons) THEN Len(heap)
    ELSE IF IsUnresolvable(reasons[i], set) THEN reasons[i]
    ELSE ScanFromZeroValue(reasons, i + 1, set)

RECURSIVE ScanFrom(_, _, _)
\* the range loop from index i on
ScanFrom(reasons, i, set) ==
    IF i > Len(reasons) THEN nil
    ELSE IF IsUnresolvable(reasons[i], set) THEN reasons[i]
    ELSE ScanFrom(reasons, i + 1, set)

UnresolvablePredicateExists(reasons, set) == ScanFrom(reasons, 1, set)

(***************************************************************************)
(* Derived state.                                                          *)
(***************************************************************************)
Callers == 1..NumCallers
Addrs == 1..Len(heap)
DynAddrs == (Len(CatalogHeap) + 1)..Len(heap)
IsA(a, kind) == a \in Addrs /\ heap[a].kind = kind

Idle == [pc |-> "idle", reasons |-> <<>>, i |-> 0, ret |-> nil]
NoCall == [op |-> "none", recv |-> nil, arg |-> <<>>, ret |-> <<>>]
Returned(op, recv, arg, ret) == [op |-> op, recv |-> recv, arg |-> arg, ret |-> ret]

\* no device type has been passed to any of n objects
NoneGiven(n) == [a \in 1..n |-> ""]
\* the last non-empty argument once g follows a history whose last one is last
LastNonEmpty(last, g) == IF g = "" THEN last ELSE g

\* the package variables other than the catalog and the map
predicates == <<heap, unresolvablePredicateFailureErrors, calls, out, made, given>>

\* nothing made after initialisation, nobody at work
NoLife ==
    [published |-> {}, owner |-> <<>>, writes |-> <<>>,
     busy |-> [t \in Callers |-> [pc |-> "idle", obj |-> nil, arg |-> ""]]]

\* package metrics has not been loaded
NoKubelet == <<>>

\* sequences of length at most n over the set S
SeqsUpTo(S, n) == UNION {[1..k -> S] : k \in 0..n}

\* the state after package initialisation
Init ==
    /\ heap = CatalogHeap
    /\ unresolvablePredicateFailureErrors = UnresolvableInit
    /\ calls = [c \in Callers |-> Idle]
    /\ out = NoCall
    /\ life = NoLife
    /\ kubelet = NoKubelet
    /\ made = CatalogMade
    /\ given = NoneGiven(Len(CatalogMade))

(***************************************************************************)
(* Inputs of the operations.                                               *)
(***************************************************************************)
ResourceNames == {"cpu", "memory"}
GpuTypes == {"", "accel-x", "accel-y"}
Messages == {"", "custom"}
Amounts == {<<I64(10), I64(6), I64(8)>>, <<I64(1), I64(4), I64(2)>>}
\* singletons an independent construction repeats the texts of
CopySources == {ErrNodeSelectorNotMatch, ErrDiskConflict}

(***************************************************************************)
(* Operations, each one call from some goroutine.                          *)
(***************************************************************************)
CanAlloc == Len(heap) < Len(CatalogHeap) + MaxObjs

Alloc(op, arg, obj) ==
    /\ heap' = Append(heap, obj)
    /\ made' = Append(made, [op |-> op, arg |-> arg])
    /\ given' = Append(given, "")
    /\ out' = Returned(op, nil, arg, Len(heap) + 1)
    /\ UNCHANGED <<unresolvablePredicateFailureErrors, calls>>
    /\ UNCHANGED <<life, kubelet>>

CallNewInsufficientResourceError ==
    /\ CanAlloc
    /\ \E am \in Amounts :
        Alloc("NewInsufficientResourceError", <<"memory", am[1], am[2], am[3]>>,
              NewInsufficientResourceError("memory", am[1], am[2], am[3]))

CallNewFailureReason ==
    /\ CanAlloc
    /\ \E msg \in Messages :
        Alloc("NewFailureReason", <<msg>>, NewFailureReason(msg))

CallNewPredicateFailureError ==
    /\ CanAlloc
    /\ \E a \in CopySources :
        Alloc("newPredicateFailureError", CatalogDecl[a],
              newPredicateFailureError(CatalogDecl[a][1], CatalogDecl[a][2]))

\* a SetGpuType with a value receiver: it works on, and returns, a copy
CallSetGpuTypeCopy ==
    \E a \in DynAddrs, g \in GpuTypes :
        /\ IsA(a, "InsufficientResourceError")
        /\ heap' = Append(heap, SetGpuType(heap[a], g))
        /\ made' = Append(made, made[a])
        /\ given' = Append(given, LastNonEmpty(given[a], g))
        /\ out' = Returned("SetGpuType", a, g, Len(heap) + 1)
        /\ UNCHANGED <<unresolvablePredicateFailureErrors, calls>>
        /\ UNCHANGED <<life, kubelet>>

CallSetGpuType ==
    \E a \in DynAddrs, g \in GpuTypes :
        /\ IsA(a, "InsufficientResourceError")
        /\ heap' = [heap EXCEPT ![a] = SetGpuType(heap[a], g)]
        /\ given' = [given EXCEPT ![a] = LastNonEmpty(given[a], g)]
        /\ out' = Returned("SetGpuType", a, g, a)
        /\ UNCHANGED <<unresolvablePredicateFailureErrors, calls, made>>
        /\ UNCHANGED <<life, kubelet>>

\* a call that only reads: op's result on the object at a
Read(op, a, ret) ==
    /\ out' = Returned(op, a, <<>>, ret)
    /\ UNCHANGED <<heap, unresolvablePredicateFailureErrors, calls, made, given>>
    /\ UNCHANGED <<life, kubelet>>

CallGetReason == \E a \in Addrs : Read("GetReason", a, GetReason(heap[a]))

CallError == \E a \in Addrs : HasError(heap[a]) /\ Read("Error", a, Error(heap[a]))

CallGetFreeAmount ==
    \E a \in DynAddrs :
        IsA(a, "InsufficientResourceError")
            /\ Read("GetFreeAmount", a, GetFreeAmount(heap[a]))

CallGetInsufficientAmount ==
    \E a \in DynAddrs :
        IsA(a, "InsufficientResourceError")
            /\ Read("GetInsufficientAmount", a, GetInsufficientAmount(heap[a]))

\* the slices the sequential callers pass: a member, a non-member, the newest object
ApiReasons == SeqsUpTo({ErrNodeSelectorNotMatch, Len(heap)}, MaxLen)

\* a call that records what it scanned as keys of the map
CallUnresolvablePredicateExistsMarking ==
    \E reasons \in ApiReasons :
        /\ out' = Returned("UnresolvablePredicateExists", nil, reasons,
                           UnresolvablePredicateExists(reasons,
                               unresolvablePredicateFailureErrors))
        /\ unresolvablePredicateFailureErrors' =
               unresolvablePredicateFailureErrors
                   \cup {reasons[i] : i \in 1..Len(reasons)}
        /\ UNCHANGED <<heap, calls, made, given>>
        /\ UNCHANGED <<life, kubelet>>

CallUnresolvablePredicateExists ==
    \E reasons \in ApiReasons :
        /\ out' = Returned("UnresolvablePredicateExists", nil, reasons,
                           UnresolvablePredicateExists(reasons,
                               unresolvablePredicateFailureErrors))
        /\ UNCHANGED <<heap, unresolvablePredicateFailureErrors, calls, made, given>>
        /\ UNCHANGED <<life, kubelet>>

Next ==
    \/ CallNewInsufficientResourceError
    \/ CallNewFailureReason
    \/ CallNewPredicateFailureError
    \/ CallSetGpuType
    \/ CallGetReason
    \/ CallError
    \/ CallGetFreeAmount
    \/ CallGetInsufficientAmount
    \/ CallUnresolvablePredicateExists

Spec == Init /\ [][Next]_vars

(***************************************************************************)
(* The classifier as a function of its input: the initial state holds the  *)
(* catalog and one object of each other kind, the caller's slice is drawn  *)
(* from ScanInputs, and the one operation is the call.                     *)
(***************************************************************************)
\* the heap a sequence of constructor calls leaves
Construct(call) ==
    CASE call.op = "newPredicateFailureError" ->
             newPredicateFailureError(call.arg[1], call.arg[2])
      [] call.op = "NewInsufficientResourceError" ->
             NewInsufficientResourceError(call.arg[1], call.arg[2],
                                          call.arg[3], call.arg[4])
      [] call.op = "NewFailureReason" -> NewFailureReason(call.arg[1])
HeapOf(m) == [a \in 1..Len(m) |-> Construct(m[a])]

ScanMade ==
    CatalogMade \o
        << [op |-> "NewInsufficientResourceError",
            arg |-> <<"memory", I64(10), I64(6), I64(8)>>],
           [op |-> "NewFailureReason", arg |-> <<"custom">>],
           [op |-> "newPredicateFailureError",
            arg |-> CatalogDecl[ErrNodeSelectorNotMatch]],
           [op |-> "NewFailureReason", arg |-> <<"">>] >>
ScanHeap == HeapOf(ScanMade)

\* the elements of the longer slices: two members, a non-member, and the
\* objects allocated after initialisation
ScanSample ==
    {ErrNodeSelectorNotMatch, ErrTaintsTolerationsNotMatch, ErrPodAffinityNotMatch}
        \cup ((Len(CatalogHeap) + 1)..Len(ScanHeap))

\* elements none of which is in the map
CurableSample == (1..Len(ScanHeap)) \ UnresolvableInit

ScanInputs ==
    SeqsUpTo(1..Len(ScanHeap), 1)
        \cup SeqsUpTo(ScanSample, MaxLen)
        \cup SeqsUpTo(CurableSample, MaxLen - 1)

InitScan ==
    /\ heap = ScanHeap
    /\ made = ScanMade
    /\ given = NoneGiven(Len(ScanMade))
    /\ unresolvablePredicateFailureErrors = UnresolvableInit
    /\ \E reasons \in ScanInputs :
           calls = [c \in Callers |->
                       IF c = 1 THEN [Idle EXCEPT !.pc = "ready", !.reasons = reasons]
                       ELSE Idle]
    /\ out = NoCall
    /\ life = NoLife
    /\ kubelet = NoKubelet

\* the whole call, on the slice that is ready
Scan ==
    /\ \E c \in Callers :
        /\ calls[c].pc = "ready"
        /\ LET ret == UnresolvablePredicateExists(calls[c].reasons,
                          unresolvablePredicateFailureErrors)
           IN  /\ calls' = [calls EXCEPT ![c].pc = "done", ![c].ret = ret]
               /\ out' = Returned("UnresolvablePredicateExists", nil,
                                  calls[c].reasons, ret)
    /\ UNCHANGED <<heap, unresolvablePredicateFailureErrors, made, given>>
    /\ UNCHANGED <<life, kubelet>>

NextScan == Scan

SpecScan == InitScan /\ [][NextScan]_vars

(***************************************************************************)
(* Concurrent callers.  Each goroutine runs UnresolvablePredicateExists one *)
(* loop iteration at a time on its own slice header, while the goroutine   *)
(* that owns the InsufficientResourceError sets its device type.           *)
(***************************************************************************)
ConcMade ==
    CatalogMade \o
        << [op |-> "NewInsufficientResourceError",
            arg |-> <<"memory", I64(10), I64(6), I64(8)>>] >>
ConcHeap == HeapOf(ConcMade)

ConcReasons ==
    SeqsUpTo({ErrNodeSelectorNotMatch, Len(CatalogHeap) + 1}, MaxConcLen)

InitConc ==
    /\ heap = ConcHeap
    /\ made = ConcMade
    /\ given = NoneGiven(Len(ConcMade))
    /\ unresolvablePredicateFailureErrors = UnresolvableInit
    /\ calls = [c \in Callers |-> Idle]
    /\ out = NoCall
    /\ life = NoLife
    /\ kubelet = NoKubelet

\* the call: the parameter is bound, the loop is about to start
Begin(c) ==
    /\ calls[c].pc = "idle"
    /\ \E reasons \in ConcReasons :
           calls' = [calls EXCEPT ![c] =
                        [pc |-> "loop", reasons |-> reasons, i |-> 1, ret |-> nil]]
    /\ UNCHANGED <<heap, unresolvablePredicateFailureErrors, out, made, given>>
    /\ UNCHANGED <<life, kubelet>>

\* an iteration that clears the element it has examined
StepClearing(c) ==
    /\ calls[c].pc = "loop"
    /\ LET f == calls[c]
       IN  IF f.i > Len(f.reasons)
           THEN calls' = [calls EXCEPT ![c].pc = "done", ![c].ret = nil]
           ELSE IF IsUnresolvable(f.reasons[f.i], unresolvablePredicateFailureErrors)
           THEN calls' = [calls EXCEPT ![c].pc = "done", ![c].ret = f.reasons[f.i]]
           ELSE calls' = [calls EXCEPT ![c].i = f.i + 1, ![c].reasons[f.i] = nil]
    /\ UNCHANGED <<heap, unresolvablePredicateFailureErrors, out, made, given>>
    /\ UNCHANGED <<life, kubelet>>

\* one iteration of the range loop, or the return after it
Step(c) ==
    /\ calls[c].pc = "loop"
    /\ LET f == calls[c]
       IN  IF f.i > Len(f.reasons)
           THEN calls' = [calls EXCEPT ![c].pc = "done", ![c].ret = nil]
           ELSE IF IsUnresolvable(f.reasons[f.i], unresolvablePredicateFailureErrors)
           THEN calls' = [calls EXCEPT ![c].pc = "done", ![c].ret = f.reasons[f.i]]
           ELSE calls' = [calls EXCEPT ![c].i = f.i + 1]
    /\ UNCHANGED <<heap, unresolvablePredicateFailureErrors, out, made, given>>
    /\ UNCHANGED <<life, kubelet>>

\* the caller has taken the result
Return(c) ==
    /\ calls[c].pc = "done"
    /\ calls' = [calls EXCEPT ![c] = Idle]
    /\ UNCHANGED <<heap, unresolvablePredicateFailureErrors, out, made, given>>
    /\ UNCHANGED <<life, kubelet>>

\* the producer of the InsufficientResourceError sets its device type
ProducerSetGpuType ==
    /\ \E a \in DynAddrs, g \in {"accel-x"} :
        /\ IsA(a, "InsufficientResourceError")
        /\ heap' = [heap EXCEPT ![a] = SetGpuType(heap[a], g)]
        /\ given' = [given EXCEPT ![a] = LastNonEmpty(given[a], g)]
    /\ UNCHANGED <<unresolvablePredicateFailureErrors, calls, out, made>>
    /\ UNCHANGED <<life, kubelet>>

NextConc ==
    \/ \E c \in Callers : Begin(c)
    \/ \E c \in Callers : Step(c)
    \/ \E c \in Callers : Return(c)
    \/ ProducerSetGpuType

SpecConc == InitConc /\ [][NextConc]_vars

(***************************************************************************)
(* The InsufficientResourceError as a function of the constructor's        *)
(* arguments: the initial state holds the catalog and one instance built   *)
(* from drawn arguments, and the operations are its methods.               *)
(***************************************************************************)
Int64Samples ==
    {MinInt64, I64(-1), I64(0), I64(2), I64(6), I64(8), I64(10), MaxInt64}

ArithMade(name, requested, used, capacity) ==
    CatalogMade \o
        << [op |-> "NewInsufficientResourceError",
            arg |-> <<name, requested, used, capacity>>] >>

InitArith ==
    /\ \E name \in ResourceNames, requested \in Int64Samples,
          used \in Int64Samples, capacity \in Int64Samples :
           /\ made = ArithMade(name, requested, used, capacity)
           /\ heap = HeapOf(made)
           /\ given = NoneGiven(Len(made))
    /\ unresolvablePredicateFailureErrors = UnresolvableInit
    /\ calls = [c \in Callers |-> Idle]
    /\ out = NoCall
    /\ life = NoLife
    /\ kubelet = NoKubelet

InsufficientAddrs == {a \in DynAddrs : IsA(a, "InsufficientResourceError")}

InsufficientGetReason ==
    \E a \in InsufficientAddrs : Read("GetReason", a, GetReason(heap[a]))

InsufficientError ==
    \E a \in InsufficientAddrs : Read("Error", a, Error(heap[a]))

NextArith ==
    \/ CallSetGpuType
    \/ InsufficientGetReason
    \/ InsufficientError
    \/ CallGetFreeAmount
    \/ CallGetInsufficientAmount

SpecArith == InitArith /\ [][NextArith]_vars

(***************************************************************************)
(* Properties of the classifier.                                           *)
(***************************************************************************)
ScanReturned == out.op = "UnresolvablePredicateExists"

\* the indices of reasons whose element is a key of the map
MemberIndices(reasons) ==
    {i \in 1..Len(reasons) : reasons[i] \in unresolvablePredicateFailureErrors}

\* C1: UnresolvablePredicateExists returns the element at the smallest index
\* whose identity is in the membership set, whatever follows it, and nil when
\* the slice is empty or holds no such element.
C1_FirstMatch ==
    ScanReturned =>
        LET M == MemberIndices(out.arg)
        IN  IF M = {} THEN out.ret = nil
            ELSE \E i \in M : (\A j \in M : i <= j) /\ out.ret = out.arg[i]

C1_Witness ==
    /\ ScanReturned
    /\ out.arg = <<Len(CatalogHeap) + 1, ErrNodeSelectorNotMatch,
                   ErrTaintsTolerationsNotMatch>>
    /\ out.ret = ErrNodeSelectorNotMatch

UnresolvableNames ==
    {"MatchNodeSelector", "PodAffinityRulesNotMatch", "HostName",
     "PodToleratesNodeTaints", "CheckNodeLabelPresence", "NodeNotReady",
     "NodeNetworkUnavailable", "NodeUnderDiskPressure", "NodeUnderPIDPressure",
     "NodeUnderMemoryPressure", "NodeUnschedulable", "NodeUnknownCondition",
     "NoVolumeZoneConflict", "VolumeNodeAffinityConflict", "VolumeBindingNoMatch"}

\* the catalog singleton of a predicate name
IsSingletonNamed(a, names) ==
    a \in CatalogAddrs /\ heap[a].PredicateName \in names

\* C2: the membership set holds exactly the 15 catalog singletons named in
\* UnresolvableNames, so for a one-element slice <<X>> the call returns X if and
\* only if X is one of these singletons.
C2_MembershipSet ==
    /\ unresolvablePredicateFailureErrors
           = {a \in Addrs : IsSingletonNamed(a, UnresolvableNames)}
    /\ Cardinality(unresolvablePredicateFailureErrors) = Cardinality(UnresolvableNames)
    /\ (ScanReturned /\ Len(out.arg) = 1) =>
           (out.ret = out.arg[1] <=> IsSingletonNamed(out.arg[1], UnresolvableNames))

C2_Witness ==
    /\ ScanReturned
    /\ out.arg = <<ErrVolumeBindConflict>>
    /\ out.ret = ErrVolumeBindConflict

CurableNames ==
    {"MatchInterPodAffinity", "ExistingPodsAntiAffinityRulesNotMatch",
     "PodAntiAffinityRulesNotMatch", "NoDiskConflict", "PodFitsHostPorts",
     "CheckServiceAffinity", "MaxVolumeCount", "EvenPodsSpreadNotMatch",
     "FakePredicateError"}

\* a failure that removing pods can cure
IsCurable(a) ==
    \/ IsA(a, "InsufficientResourceError")
    \/ IsA(a, "FailureReason")
    \/ IsSingletonNamed(a, CurableNames)

\* C3: a slice made only of InsufficientResourceError instances, non-member
\* catalog singletons and free-form FailureReason instances yields nil.
C3_CurableOnly ==
    (ScanReturned /\ \A i \in 1..Len(out.arg) : IsCurable(out.arg[i]))
        => out.ret = nil

C3_Witness ==
    /\ ScanReturned
    /\ out.arg = <<Len(CatalogHeap) + 1, ErrPodAffinityNotMatch>>
    /\ out.ret = nil

\* an object constructed independently with the texts of a singleton of the set
IsCopyOfMember(a) ==
    /\ a \notin CatalogAddrs
    /\ \E m \in unresolvablePredicateFailureErrors : heap[a] = heap[m]

\* C4: membership is by identity: a slice holding only independently built
\* copies of member singletons yields nil, while the canonical singleton in the
\* place of the first copy is returned.
C4_Identity ==
    ScanReturned =>
        /\ (\A i \in 1..Len(out.arg) : IsCopyOfMember(out.arg[i])) => out.ret = nil
        /\ \A m \in unresolvablePredicateFailureErrors :
               (/\ Len(out.arg) >= 1
                /\ out.arg[1] = m
                /\ \A i \in 2..Len(out.arg) : IsCopyOfMember(out.arg[i]))
                   => out.ret = m

C4_Witness ==
    /\ ScanReturned
    /\ Len(out.arg) = 2
    /\ \A i \in 1..2 : IsCopyOfMember(out.arg[i])
    /\ out.ret = nil

C4_WitnessCanonical ==
    /\ ScanReturned
    /\ Len(out.arg) = 2
    /\ out.arg[1] = ErrNodeSelectorNotMatch
    /\ IsCopyOfMember(out.arg[2])
    /\ out.ret = ErrNodeSelectorNotMatch

(***************************************************************************)
(* Properties of the catalog.                                              *)
(***************************************************************************)
CatalogReasonReturned == out.op = "GetReason" /\ out.recv \in CatalogAddrs

\* the description column of the catalog table of the design document
DocumentedDesc ==
    "NoDiskConflict" :> "no available disk"
    @@ "NoVolumeZoneConflict" :> "no available volume zone"
    @@ "MatchNodeSelector" :> "didn't match node selector"
    @@ "MatchInterPodAffinity" :> "didn't match pod affinity/anti-affinity"
    @@ "PodAffinityRulesNotMatch" :> "didn't match pod affinity rules"
    @@ "PodAntiAffinityRulesNotMatch" :> "didn't match pod anti-affinity rules"
    @@ "ExistingPodsAntiAffinityRulesNotMatch"
           :> "didn't satisfy existing pods anti-affinity rules"
    @@ "PodToleratesNodeTaints" :> "had taints the pod didn't tolerate"
    @@ "HostName" :> "didn't match requested hostname"
    @@ "PodFitsHostPorts" :> "no free ports for requested pod ports"
    @@ "CheckNodeLabelPresence" :> "didn't have requested labels"
    @@ "CheckServiceAffinity" :> "didn't match service affinity"
    @@ "MaxVolumeCount" :> "exceeded max volume count"

\* the same entries with the text GetReason is to return in full
FullDesc ==
    "NoDiskConflict" :> "node(s) had no available disk"
    @@ "NoVolumeZoneConflict" :> "node(s) had no available volume zone"
    @@ "MatchNodeSelector" :> "node(s) didn't match node selector"
    @@ "MatchInterPodAffinity" :> "node(s) didn't match pod affinity/anti-affinity"
    @@ "PodAffinityRulesNotMatch" :> "node(s) didn't match pod affinity rules"
    @@ "PodAntiAffinityRulesNotMatch" :> "node(s) didn't match pod anti-affinity rules"
    @@ "ExistingPodsAntiAffinityRulesNotMatch"
           :> "node(s) didn't satisfy existing pods anti-affinity rules"
    @@ "PodToleratesNodeTaints" :> "node(s) had taints that the pod didn't tolerate"
    @@ "HostName" :> "node(s) didn't match the requested hostname"
    @@ "PodFitsHostPorts"
           :> "node(s) didn't have free ports for the requested pod ports"
    @@ "CheckNodeLabelPresence" :> "node(s) didn't have the requested labels"
    @@ "CheckServiceAffinity" :> "node(s) didn't match service affinity"
    @@ "MaxVolumeCount" :> "node(s) exceed max volume count"

ReasonIs(table) ==
    (CatalogReasonReturned /\ heap[out.recv].PredicateName \in DOMAIN table)
        => out.ret = table[heap[out.recv].PredicateName]

\* C5 as stated: for every catalog entry, GetReason returns the description of
\* the catalog table verbatim ("no available disk" for NoDiskConflict, ...).
C5_DocumentedText == ReasonIs(DocumentedDesc)

\* C5 amended: for every catalog entry of the table, GetReason returns the full
\* sentence the entry was constructed with ("node(s) had no available disk" for
\* NoDiskConflict, ...), of which the table gives an abridged form.
C5_FullText == ReasonIs(FullDesc)

C5_Witness ==
    /\ CatalogReasonReturned
    /\ out.recv = ErrDiskConflict
    /\ out.ret = "node(s) had no available disk"

\* C6: in every state reachable by the package's operations, every catalog
\* singleton has the name and description it was created with, the membership
\* set holds the elements it was initialised with, and GetReason on a catalog
\* entry returns the text the entry was created with.
C6_CatalogImmutable ==
    /\ \A a \in CatalogAddrs :
           /\ a \in Addrs
           /\ made[a] = CatalogMade[a]
           /\ heap[a].kind = "PredicateFailureError"
           /\ heap[a].PredicateName = made[a].arg[1]
           /\ heap[a].PredicateDesc = made[a].arg[2]
    /\ unresolvablePredicateFailureErrors = UnresolvableInit
    /\ CatalogReasonReturned => out.ret = made[out.recv].arg[2]

\* a catalog read after an allocation and a device-type write have happened
C6_Witness ==
    /\ CatalogReasonReturned
    /\ out.recv = ErrNodeSelectorNotMatch
    /\ Len(heap) = Len(CatalogHeap) + MaxObjs
    /\ \E a \in DynAddrs :
           IsA(a, "InsufficientResourceError") /\ heap[a].GpuType # ""

(***************************************************************************)
(* Properties of concurrent calls.                                         *)
(***************************************************************************)
\* the element at the smallest index that is a key of the initial map, or nil
FirstOfInitialSet(reasons) ==
    LET M == {i \in 1..Len(reasons) : reasons[i] \in UnresolvableInit}
    IN  IF M = {} THEN nil ELSE reasons[CHOOSE i \in M : \A j \in M : i <= j]

\* a step of call c leaves its slice, the objects and the map as they were
StepReadsOnly(c) ==
    (calls[c].pc = "loop" /\ calls'[c] # calls[c]) =>
        /\ calls'[c].reasons = calls[c].reasons
        /\ heap' = heap
        /\ unresolvablePredicateFailureErrors' = unresolvablePredicateFailureErrors

\* C7: a call of UnresolvablePredicateExists changes neither its slice, nor an
\* element's fields, nor the membership set, and with any number of concurrent
\* calls each one returns what it returns when run alone.
C7_PureRead ==
    /\ [](\A c \in Callers :
             calls[c].pc = "done" => calls[c].ret = FirstOfInitialSet(calls[c].reasons))
    /\ [][\A c \in Callers : StepReadsOnly(c)]_vars

\* two calls have finished on the same slice while a third goroutine wrote
\* the device type of an element of it
C7_Witness ==
    /\ \A c \in {1, 2} :
           /\ calls[c].pc = "done"
           /\ calls[c].reasons = <<Len(CatalogHeap) + 1, ErrNodeSelectorNotMatch>>
           /\ calls[c].ret = ErrNodeSelectorNotMatch
    /\ heap[Len(CatalogHeap) + 1].GpuType = "accel-x"

(***************************************************************************)
(* Properties of the InsufficientResourceError.                            *)
(***************************************************************************)
\* the arguments the instance at a was constructed with
Requested(a) == made[a].arg[2]
Used(a) == made[a].arg[3]
Capacity(a) == made[a].arg[4]

\* capacity - used and requested - (capacity - used) as mathematical integers
MathFree(a) == MathSub(Capacity(a), Used(a))
MathInsufficient(a) == MathSub(Requested(a), MathFree(a))
Wide(x) == Ext(x, WideLimbs)

InsufficientAmountReturned ==
    out.op = "GetInsufficientAmount" /\ made[out.recv].op = "NewInsufficientResourceError"
FreeAmountReturned ==
    out.op = "GetFreeAmount" /\ made[out.recv].op = "NewInsufficientResourceError"

\* signed comparison of two int64 values
Less64(x, y) == MathLess(Wide(x), Wide(y))

\* the statement read over the integers
C8_InIntegers ==
    /\ Wide(out.ret) = MathInsufficient(out.recv)
    /\ Wide(Requested(out.recv)) = MathFree(out.recv) => IsZeroN(out.ret)
    /\ MathLess(Wide(Requested(out.recv)), MathFree(out.recv)) => IsNegN(out.ret)

\* the statement read in the machine's arithmetic, capacity - used wrapping
C8_InInt64 ==
    LET free == Sub64(Capacity(out.recv), Used(out.recv))
    IN  /\ out.ret = Sub64(Requested(out.recv), free)
        /\ Requested(out.recv) = free => IsZeroN(out.ret)
        /\ Less64(Requested(out.recv), free) => IsNegN(out.ret)

\* C8 as stated: for every instance GetInsufficientAmount returns
\* requested - (capacity - used), zero when requested = capacity - used and
\* negative when requested < capacity - used; taken to hold when it does in
\* either reading.
C8_ExactDifference ==
    InsufficientAmountReturned => (C8_InIntegers \/ C8_InInt64)

\* C8 amended: GetInsufficientAmount returns requested - (capacity - used) in
\* wrapping signed 64-bit arithmetic, without clamping: the result is the
\* integer difference reduced modulo 2^64, so whenever that difference is
\* representable in 64 bits it is the difference itself (zero when
\* requested = capacity - used, negative when requested < capacity - used;
\* 10, 6, 8 gives 8).
C8_WrappingDifference ==
    InsufficientAmountReturned =>
        LET d == MathInsufficient(out.recv)
        IN  /\ out.ret = Trunc(d, Int64Limbs)
            /\ FitsN(d, Int64Limbs) =>
                   /\ Wide(out.ret) = d
                   /\ IsZeroN(out.ret) <=> Wide(Requested(out.recv)) = MathFree(out.recv)
                   /\ IsNegN(out.ret)
                          <=> MathLess(Wide(Requested(out.recv)), MathFree(out.recv))
            /\ made[out.recv].arg = <<"memory", I64(10), I64(6), I64(8)>>
                   => out.ret = I64(8)

\* a negative shortfall: requested 2 of the 4 that are free
C8_Witness ==
    /\ InsufficientAmountReturned
    /\ <<Requested(out.recv), Used(out.recv), Capacity(out.recv)>>
           = <<I64(2), I64(6), I64(10)>>
    /\ out.ret = I64(-2)

\* the statement read over the integers
C9_InIntegers ==
    /\ Wide(out.ret) = MathFree(out.recv)
    /\ MathLess(Wide(Capacity(out.recv)), Wide(Used(out.recv))) => IsNegN(out.ret)

\* the statement read in the machine's arithmetic
C9_InInt64 ==
    /\ out.ret = Sub64(Capacity(out.recv), Used(out.recv))
    /\ Less64(Capacity(out.recv), Used(out.recv)) => IsNegN(out.ret)

\* C9 as stated: for every instance GetFreeAmount returns capacity - used,
\* negative when used > capacity, and GetInsufficientAmount is
\* requested - GetFreeAmount; taken to hold when it does in either reading.
C9_ExactFree ==
    /\ FreeAmountReturned => (C9_InIntegers \/ C9_InInt64)
    /\ InsufficientAmountReturned =>
           out.ret = Sub64(Requested(out.recv), GetFreeAmount(heap[out.recv]))

\* C9 amended: GetFreeAmount returns capacity - used in wrapping signed 64-bit
\* arithmetic, independent of requested and not clamped: the result is the
\* integer difference reduced modulo 2^64, so whenever that difference is
\* representable in 64 bits it is the difference itself (negative when
\* used > capacity); and on every instance GetInsufficientAmount is
\* requested - GetFreeAmount in the same arithmetic.
C9_WrappingFree ==
    /\ FreeAmountReturned =>
           LET d == MathFree(out.recv)
           IN  /\ out.ret = Trunc(d, Int64Limbs)
               /\ FitsN(d, Int64Limbs) =>
                      /\ Wide(out.ret) = d
                      /\ IsNegN(out.ret)
                             <=> MathLess(Wide(Capacity(out.recv)), Wide(Used(out.recv)))
    /\ InsufficientAmountReturned =>
           out.ret = Sub64(Requested(out.recv), GetFreeAmount(heap[out.recv]))

\* more used than there is: capacity 6, used 8
C9_Witness ==
    /\ FreeAmountReturned
    /\ <<Used(out.recv), Capacity(out.recv)>> = <<I64(8), I64(6)>>
    /\ out.ret = I64(-2)

\* the decimal numerals of the sampled amounts
Decimal ==
    MinInt64 :> "-9223372036854775808"
    @@ I64(-1) :> "-1"
    @@ I64(0) :> "0"
    @@ I64(1) :> "1"
    @@ I64(2) :> "2"
    @@ I64(4) :> "4"
    @@ I64(6) :> "6"
    @@ I64(8) :> "8"
    @@ I64(10) :> "10"
    @@ MaxInt64 :> "9223372036854775807"

\* C10: for every InsufficientResourceError, GetReason returns "Insufficient "
\* followed by the resource name, and Error returns the template "Node didn't
\* have enough resource: <resourceName>, requested: <requested>, used: <used>,
\* capacity: <capacity>" filled with the constructor's four arguments in that
\* order, whatever the device type is.
C10_Texts ==
    \A a \in Addrs :
        (made[a].op = "NewInsufficientResourceError" /\ out.recv = a) =>
            /\ out.op = "GetReason" => out.ret = "Insufficient " \o made[a].arg[1]
            /\ out.op = "Error" =>
                   out.ret = "Node didn't have enough resource: " \o made[a].arg[1]
                                 \o ", requested: " \o Decimal[Requested(a)]
                                 \o ", used: " \o Decimal[Used(a)]
                                 \o ", capacity: " \o Decimal[Capacity(a)]

\* the example of the design document, after the device type has been set
C10_Witness ==
    /\ out.op = "Error"
    /\ made[out.recv].op = "NewInsufficientResourceError"
    /\ heap[out.recv].GpuType = "accel-x"
    /\ out.ret = "Node didn't have enough resource: memory, requested: 10, used: 6, capacity: 8"

(***************************************************************************)
(* Properties of SetGpuType and of the free-form reason.                   *)
(***************************************************************************)
SetGpuTypeReturned ==
    out.op = "SetGpuType" /\ IsA(out.recv, "InsufficientResourceError")

\* C11: SetGpuType with an empty argument never changes the stored device
\* type: after any sequence of SetGpuType calls the field of an instance is
\* the last non-empty argument passed to it, empty if there was none, and a
\* value once set is never cleared.
C11_LastNonEmpty ==
    /\ [](\A a \in Addrs :
             IsA(a, "InsufficientResourceError") => heap[a].GpuType = given[a])
    /\ [][\A a \in Addrs :
             (IsA(a, "InsufficientResourceError") /\ heap[a].GpuType # "")
                 => heap'[a].GpuType # ""]_vars

\* SetGpuType("") has returned on an instance whose device type was set before
C11_Witness ==
    /\ SetGpuTypeReturned
    /\ out.arg = ""
    /\ heap[out.recv].GpuType = "accel-x"

\* C12: SetGpuType returns the very instance it was called on, for empty and
\* non-empty arguments alike: no object is allocated, and the object the
\* result points to carries the update.
C12_ReturnsReceiver ==
    /\ Len(heap) <= Len(CatalogHeap) + MaxObjs
    /\ SetGpuTypeReturned =>
           /\ out.ret = out.recv
           /\ heap[out.ret].GpuType = given[out.recv]
           /\ out.arg # "" => heap[out.ret].GpuType = out.arg

C12_Witness ==
    /\ SetGpuTypeReturned
    /\ out.arg = "accel-y"
    /\ out.ret = out.recv
    /\ heap[out.ret].GpuType = "accel-y"

FreeFormReasonReturned ==
    out.op = "GetReason" /\ made[out.recv].op = "NewFailureReason"

\* C13: for every message, the empty one included, GetReason of the
\* FailureReason that NewFailureReason(message) built returns message.
C13_MessageUnchanged ==
    FreeFormReasonReturned => out.ret = made[out.recv].arg[1]

C13_Witness ==
    /\ FreeFormReasonReturned
    /\ made[out.recv].arg = <<"">>
    /\ out.ret = ""

\* a value of type int64
IsInt64(x) ==
    /\ DOMAIN x = 1..Int64Limbs
    /\ \A i \in 1..Int64Limbs : x[i] \in 0..(LimbBase - 1)

\* C15: NewInsufficientResourceError validates nothing and never fails: for
\* every combination of amounts the instance exists and holds the three values
\* as given, it is a receiver of every getter, and each getter returns a
\* value of its type.
C15_NoValidation ==
    \A a \in Addrs :
        made[a].op = "NewInsufficientResourceError" =>
            /\ IsA(a, "InsufficientResourceError")
            /\ heap[a].ResourceName = made[a].arg[1]
            /\ heap[a].requested = Requested(a)
            /\ heap[a].used = Used(a)
            /\ heap[a].capacity = Capacity(a)
            /\ a \in InsufficientAddrs
            /\ out.recv = a =>
                   /\ out.op \in {"GetFreeAmount", "GetInsufficientAmount"}
                          => IsInt64(out.ret)
                   /\ out.op \in {"GetReason", "Error"} => out.ret \in STRING

\* the shortfall of an instance whose differences both overflow
C15_Witness ==
    /\ InsufficientAmountReturned
    /\ <<Requested(out.recv), Used(out.recv), Capacity(out.recv)>>
           = <<MinInt64, MaxInt64, MinInt64>>
    /\ out.ret = MaxInt64

\* C17: the result of UnresolvablePredicateExists is nil or an element of its
\* input that is a key of the map; it is never another object, in particular
\* not a reason with an empty text.
C17_NilOrElement ==
    ScanReturned =>
        \/ out.ret = nil
        \/ /\ \E i \in 1..Len(out.arg) : out.arg[i] = out.ret
           /\ out.ret \in unresolvablePredicateFailureErrors
           /\ GetReason(heap[out.ret]) # ""

\* nothing was found in a slice that holds the reason with the empty text
C17_Witness ==
    /\ ScanReturned
    /\ Len(out.arg) = 2
    /\ \A i \in 1..2 : IsA(out.arg[i], "FailureReason") /\ heap[out.arg[i]].reason = ""
    /\ out.ret = nil

(***************************************************************************)
(* The life of an instance, SpecFreeze: the evaluation thread that makes   *)
(* an instance may give it a device type once, then hands it to the shared *)
(* results, where any thread reads it.  The producers are the schedulers   *)
(* that call this package; the constructors, SetGpuType and the reading    *)
(* methods are the package's.  A call takes two steps, so that calls of    *)
(* different threads overlap.                                              *)
(***************************************************************************)
Resting == [pc |-> "idle", obj |-> nil, arg |-> ""]

At(t, pc) == life.busy[t].pc = pc

Goes(t, pc, a, arg) ==
    [life EXCEPT !.busy[t] = [pc |-> pc, obj |-> a, arg |-> arg]]

InitFreeze ==
    /\ heap = CatalogHeap
    /\ unresolvablePredicateFailureErrors = UnresolvableInit
    /\ calls = [c \in Callers |-> Idle]
    /\ out = NoCall
    /\ made = CatalogMade
    /\ given = NoneGiven(Len(CatalogMade))
    /\ life = NoLife
    /\ kubelet = NoKubelet

\* the instances an evaluation thread makes
Produced ==
    {[op |-> "NewInsufficientResourceError", arg |-> <<"memory", I64(10), I64(6), I64(8)>>],
     [op |-> "NewFailureReason", arg |-> <<"custom">>]}

\* thread t makes an instance, which only t holds
Produce(t) ==
    /\ At(t, "idle")
    /\ CanAlloc
    /\ \E m \in Produced :
        /\ heap' = Append(heap, Construct(m))
        /\ made' = Append(made, m)
        /\ given' = Append(given, "")
        /\ out' = Returned(m.op, nil, m.arg, Len(heap) + 1)
    /\ life' = [Goes(t, "built", Len(heap) + 1, "") EXCEPT
                   !.owner = (Len(heap) + 1 :> t) @@ @,
                   !.writes = (Len(heap) + 1 :> 0) @@ @]
    /\ UNCHANGED <<unresolvablePredicateFailureErrors, calls, kubelet>>

\* the producer calls SetGpuType, once, on the instance it still holds alone
SetGpuTypeCalled(t) ==
    /\ At(t, "built")
    /\ IsA(life.busy[t].obj, "InsufficientResourceError")
    /\ life.writes[life.busy[t].obj] = 0
    /\ \E g \in GpuTypes : life' = Goes(t, "writing", life.busy[t].obj, g)
    /\ UNCHANGED <<predicates, unresolvablePredicateFailureErrors, kubelet>>

\* SetGpuType's body and return
SetGpuTypeReturns(t) ==
    /\ At(t, "writing")
    /\ LET a == life.busy[t].obj
           g == life.busy[t].arg
       IN /\ heap' = [heap EXCEPT ![a] = SetGpuType(heap[a], g)]
          /\ given' = [given EXCEPT ![a] = LastNonEmpty(given[a], g)]
          /\ out' = Returned("SetGpuType", a, g, a)
          /\ life' = [Goes(t, "built", a, "") EXCEPT !.writes[a] = @ + 1]
    /\ UNCHANGED <<unresolvablePredicateFailureErrors, calls, made, kubelet>>

\* the producer hands the instance to the shared results and lets go of it
Publish(t) ==
    /\ At(t, "built")
    /\ life' = [Goes(t, "idle", nil, "") EXCEPT !.published = @ \cup {life.busy[t].obj}]
    /\ UNCHANGED <<predicates, unresolvablePredicateFailureErrors, kubelet>>

\* the reading calls an instance of this kind has
ReaderOps(e) ==
    IF e.kind = "InsufficientResourceError"
    THEN {"GetReason", "Error", "GetFreeAmount", "GetInsufficientAmount",
          "UnresolvablePredicateExists"}
    ELSE {"GetReason", "UnresolvablePredicateExists"}

\* what the reading call op returns for the instance at a
ReaderValue(op, a) ==
    CASE op = "GetReason" -> GetReason(heap[a])
      [] op = "Error" -> Error(heap[a])
      [] op = "GetFreeAmount" -> GetFreeAmount(heap[a])
      [] op = "GetInsufficientAmount" -> GetInsufficientAmount(heap[a])
      [] op = "UnresolvablePredicateExists" ->
            UnresolvablePredicateExists(<<a>>, unresolvablePredicateFailureErrors)

\* a consumer starts one of the reading calls on a published instance
ReaderCalls(t) ==
    /\ At(t, "idle")
    /\ \E a \in life.published : life' = Goes(t, "reading", a, "")
    /\ UNCHANGED <<predicates, unresolvablePredicateFailureErrors, kubelet>>

\* a reading method that resets the device type of its receiver
ReaderReturnsResetting(t) ==
    /\ At(t, "reading")
    /\ LET a == life.busy[t].obj
       IN /\ \E op \in ReaderOps(heap[a]) :
                out' = Returned(op, a, <<>>, ReaderValue(op, a))
          /\ heap' = [heap EXCEPT ![a] =
                         IF @.kind = "InsufficientResourceError"
                         THEN [@ EXCEPT !.GpuType = ""] ELSE @]
    /\ life' = Goes(t, "idle", nil, "")
    /\ UNCHANGED <<unresolvablePredicateFailureErrors, calls, made, given, kubelet>>

\* the reading call returns: the methods read their receiver and store nothing
ReaderReturns(t) ==
    /\ At(t, "reading")
    /\ \E op \in ReaderOps(heap[life.busy[t].obj]) :
        out' = Returned(op, life.busy[t].obj, <<>>, ReaderValue(op, life.busy[t].obj))
    /\ life' = Goes(t, "idle", nil, "")
    /\ UNCHANGED <<heap, unresolvablePredicateFailureErrors, calls, made, given, kubelet>>

NextFreeze ==
    \/ \E t \in Callers : Produce(t)
    \/ \E t \in Callers : SetGpuTypeCalled(t)
    \/ \E t \in Callers : SetGpuTypeReturns(t)
    \/ \E t \in Callers : Publish(t)
    \/ \E t \in Callers : ReaderCalls(t)
    \/ \E t \in Callers : ReaderReturns(t)

SpecFreeze == InitFreeze /\ [][NextFreeze]_vars

\* the instances made so far in this life
Instances == DOMAIN life.owner

\* thread t is inside a call of kind pc on the instance at a
Inside(t, pc, a) == At(t, pc) /\ life.busy[t].obj = a

NilPtr == <<>>
Ref(v) == <<v>>
Deref(p) == p[1]

errorNil == [isNil |-> TRUE, msg |-> ""]
Errorf(msg) == [isNil |-> FALSE, msg |-> msg]

\* the nil map[string]string
NilLabels == <<>>

\* fmt.Sprintf(configMapAPIPathFmt, namespace, name)
configMapAPIPath(namespace, name) ==
    "/api/v1/namespaces/" \o namespace \o "/configmaps/" \o name

\* a configLabels that takes a source with no variant set for the local config
configLabelsLenient(source) ==
    IF source = NilPtr \/ Deref(source).ConfigMap = NilPtr
    THEN [labels |-> [node_config_source |-> "local",
                      node_config_uid |-> "",
                      node_config_resource_version |-> "",
                      node_config_kubelet_key |-> ""],
          err |-> errorNil]
    ELSE LET cm == Deref(Deref(source).ConfigMap)
         IN [labels |-> [node_config_source |-> configMapAPIPath(cm.Namespace, cm.Name),
                         node_config_uid |-> cm.UID,
                         node_config_resource_version |-> cm.ResourceVersion,
                         node_config_kubelet_key |-> cm.KubeletConfigKey],
             err |-> errorNil]

configLabels(source) ==
    IF source = NilPtr
    THEN [labels |-> [node_config_source |-> "local",
                      node_config_uid |-> "",
                      node_config_resource_version |-> "",
                      node_config_kubelet_key |-> ""],
          err |-> errorNil]
    ELSE IF Deref(source).ConfigMap # NilPtr
    THEN LET cm == Deref(Deref(source).ConfigMap)
         IN [labels |-> [node_config_source |-> configMapAPIPath(cm.Namespace, cm.Name),
                         node_config_uid |-> cm.UID,
                         node_config_resource_version |-> cm.ResourceVersion,
                         node_config_kubelet_key |-> cm.KubeletConfigKey],
             err |-> errorNil]
    ELSE [labels |-> NilLabels,
          err |-> Errorf("unrecognized config source type, all source subfields were nil")]

\* vec.Delete(labels): drops the series with exactly these labels, if there is one
GaugeVec_Delete(vec, labels) ==
    [deleted |-> labels \in DOMAIN vec,
     vec |-> [l \in DOMAIN vec \ {labels} |-> vec[l]]]

\* vec.With(labels): the series with these labels, made at 0 if there is none
GaugeVec_With(vec, labels) ==
    IF labels \in DOMAIN vec THEN vec ELSE (labels :> 0) @@ vec

\* vec.With(labels).Set(v)
Gauge_Set(vec, labels, v) == [vec EXCEPT ![labels] = v]

AssignedConfig == "AssignedConfig"
ActiveConfig == "ActiveConfig"
LastKnownGoodConfig == "LastKnownGoodConfig"
ConfigGauges == {AssignedConfig, ActiveConfig, LastKnownGoodConfig}

\* the package after initialisation: empty gauges, nil tracked labels
\* (labels[g] is assignedConfigLabels, activeConfigLabels, lastKnownGoodConfigLabels);
\* last[g] holds the sources of the latest two calls that returned nil, newest first
KubeletInit ==
    [gauge |-> [g \in ConfigGauges |-> <<>>],
     labels |-> [g \in ConfigGauges |-> NilLabels],
     warned |-> FALSE,
     last |-> [g \in ConfigGauges |-> <<>>]]

\* source put before the latest entry of the history h
Latest(source, h) == IF h = <<>> THEN <<source>> ELSE <<source, h[1]>>

\* an update that exposes the new series and leaves the old one in place
setConfigKeepingOld(k, g, source) ==
    LET r == configLabels(source)
    IN IF ~r.err.isNil THEN [k |-> k, err |-> r.err]
       ELSE [k |-> [k EXCEPT !.gauge[g] = Gauge_Set(GaugeVec_With(@, r.labels), r.labels, 1),
                             !.labels[g] = r.labels,
                             !.last[g] = Latest(source, @)],
             err |-> errorNil]

\* the body the three Set...Config functions share, on gauge g and its tracked labels
setConfig(k, g, source) ==
    LET r == configLabels(source)
    IN IF ~r.err.isNil THEN [k |-> k, err |-> r.err]
       ELSE LET d == GaugeVec_Delete(k.gauge[g], k.labels[g])
            IN [k |-> [k EXCEPT !.gauge[g] = Gauge_Set(GaugeVec_With(d.vec, r.labels), r.labels, 1),
                                !.labels[g] = r.labels,
                                !.warned = @ \/ ~d.deleted,
                                !.last[g] = Latest(source, @)],
                err |-> errorNil]

\* the sources the callers pass: none, one with no variant set, and config maps
ConfigMaps ==
    {[Namespace |-> "kube-system", Name |-> "node-a", UID |-> "u1",
      ResourceVersion |-> "1", KubeletConfigKey |-> "kubelet"],
     [Namespace |-> "kube-system", Name |-> "node-a", UID |-> "u1",
      ResourceVersion |-> "2", KubeletConfigKey |-> "kubelet"],
     [Namespace |-> "kube-system", Name |-> "node-b", UID |-> "u2",
      ResourceVersion |-> "1", KubeletConfigKey |-> "kubelet"]}

NoVariant == Ref([ConfigMap |-> NilPtr])
Sources == {NilPtr, NoVariant} \cup {Ref([ConfigMap |-> Ref(cm)]) : cm \in ConfigMaps}

InitConfig ==
    /\ heap = CatalogHeap
    /\ unresolvablePredicateFailureErrors = UnresolvableInit
    /\ calls = [c \in Callers |-> Idle]
    /\ out = NoCall
    /\ made = CatalogMade
    /\ given = NoneGiven(Len(CatalogMade))
    /\ life = NoLife
    /\ kubelet = KubeletInit

\* one call of a Set...Config function from start to return
SetConfigCall(op, g, source) ==
    /\ kubelet' = setConfig(kubelet, g, source).k
    /\ out' = Returned(op, nil, <<source>>, setConfig(kubelet, g, source).err)
    /\ UNCHANGED <<heap, unresolvablePredicateFailureErrors, calls, made, given, life>>

SetAssignedConfig ==
    \E source \in Sources : SetConfigCall("SetAssignedConfig", AssignedConfig, source)

SetActiveConfig ==
    \E source \in Sources : SetConfigCall("SetActiveConfig", ActiveConfig, source)

SetLastKnownGoodConfig ==
    \E source \in Sources :
        SetConfigCall("SetLastKnownGoodConfig", LastKnownGoodConfig, source)

NextConfig ==
    \/ SetAssignedConfig
    \/ SetActiveConfig
    \/ SetLastKnownGoodConfig

SpecConfig == InitConfig /\ [][NextConfig]_vars

SetConfigOps == {"SetAssignedConfig", "SetActiveConfig", "SetLastKnownGoodConfig"}

\* the gauge a Set...Config function works on
GaugeOf(op) ==
    CASE op = "SetAssignedConfig" -> AssignedConfig
      [] op = "SetActiveConfig" -> ActiveConfig
      [] op = "SetLastKnownGoodConfig" -> LastKnownGoodConfig

\* the label set of the local configuration
LocalLabels ==
    [node_config_source |-> "local", node_config_uid |-> "",
     node_config_resource_version |-> "", node_config_kubelet_key |-> ""]

\* a Set...Config call has just returned for this source
SetConfigReturned(source) == out.op \in SetConfigOps /\ out.arg = <<source>>

\* C16: each of the three Set...Config functions returns a non-nil error for a
\* non-nil source whose ConfigMap is nil and leaves the tracked label sets and
\* the series of the gauges as they were; for a nil source it returns no error
\* and tracks and exposes the label set of the local configuration.
C16_NoVariantIsHardError ==
    [][/\ out'.op \in SetConfigOps
       /\ LET source == out'.arg[1]
              g == GaugeOf(out'.op)
          IN /\ (source # NilPtr /\ Deref(source).ConfigMap = NilPtr) =>
                    /\ ~out'.ret.isNil
                    /\ kubelet'.labels = kubelet.labels
                    /\ kubelet'.gauge = kubelet.gauge
             /\ source = NilPtr =>
                    /\ out'.ret.isNil
                    /\ kubelet'.labels[g] = LocalLabels
                    /\ LocalLabels \in DOMAIN kubelet'.gauge[g]]_vars

\* the update of a gauge that exposes a config map's series was refused for a
\* source with no variant set
C16_Witness ==
    /\ SetConfigReturned(NoVariant)
    /\ ~out.ret.isNil
    /\ kubelet.labels[GaugeOf(out.op)] \notin {NilLabels, LocalLabels}
    /\ kubelet.gauge[GaugeOf(out.op)] # <<>>

\* C18: once a call on a gauge has succeeded, the gauge exposes exactly one
\* series, of value 1, labelled from the source of the latest successful call
\* on that gauge; the series of the successful call before it is gone.
C18_NoLeak ==
    \A g \in ConfigGauges :
        kubelet.last[g] # <<>> =>
            /\ Cardinality(DOMAIN kubelet.gauge[g]) = 1
            /\ \A l \in DOMAIN kubelet.gauge[g] :
                /\ kubelet.gauge[g][l] = 1
                /\ l = configLabels(kubelet.last[g][1]).labels
                /\ l = kubelet.labels[g]

\* a gauge went from one config map to another, and a later update of it failed
C18_Witness ==
    \E g \in ConfigGauges :
        /\ Len(kubelet.last[g]) = 2
        /\ NilPtr \notin {kubelet.last[g][1], kubelet.last[g][2]}
        /\ configLabels(kubelet.last[g][1]).labels # configLabels(kubelet.last[g][2]).labels
        /\ configLabels(kubelet.last[g][2]).labels \notin DOMAIN kubelet.gauge[g]
        /\ SetConfigReturned(NoVariant)
        /\ GaugeOf(out.op) = g

(***************************************************************************)
(* SpecConfigConc: goroutines inside SetAssignedConfig at the same time.   *)
(* The function takes no lock, so its accesses to assignedConfigLabels and *)
(* to the gauge vector interleave; each goroutine makes one call.  A       *)
(* goroutine between With and Set holds the series With gave it, which is  *)
(* no longer exposed once another goroutine has deleted it.                *)
(***************************************************************************)
Outside == [pc |-> "idle", source |-> NilPtr, labels |-> NilLabels,
            held |-> NilLabels, exposed |-> FALSE, err |-> errorNil]

InitConfigConc ==
    /\ heap = CatalogHeap
    /\ unresolvablePredicateFailureErrors = UnresolvableInit
    /\ calls = [c \in Callers |-> Idle]
    /\ out = NoCall
    /\ made = CatalogMade
    /\ given = NoneGiven(Len(CatalogMade))
    /\ life = NoLife
    /\ kubelet = [go |-> [c \in Callers |-> Outside]] @@ KubeletInit

Go(c) == kubelet.go[c]

Elsewhere == <<heap, unresolvablePredicateFailureErrors, calls, made, given, life>>

\* SetAssignedConfig(source) up to the error check: configLabels, return on error
AssignedCall(c) ==
    /\ Go(c).pc = "idle"
    /\ \E source \in Sources :
        LET r == configLabels(source)
        IN IF r.err.isNil
           THEN /\ kubelet' = [kubelet EXCEPT !.go[c] =
                                  [@ EXCEPT !.pc = "delete", !.source = source,
                                            !.labels = r.labels]]
                /\ out' = out
           ELSE /\ kubelet' = [kubelet EXCEPT !.go[c] =
                                  [@ EXCEPT !.pc = "done", !.source = source, !.err = r.err]]
                /\ out' = Returned("SetAssignedConfig", nil, <<source>>, r.err)
    /\ UNCHANGED Elsewhere

\* AssignedConfig.Delete(assignedConfigLabels), and the warning when it fails
AssignedDelete(c) ==
    /\ Go(c).pc = "delete"
    /\ LET old == kubelet.labels[AssignedConfig]
           d == GaugeVec_Delete(kubelet.gauge[AssignedConfig], old)
       IN kubelet' = [kubelet EXCEPT
              !.gauge[AssignedConfig] = d.vec,
              !.warned = @ \/ ~d.deleted,
              !.go = [b \in Callers |->
                         IF b = c THEN [@[b] EXCEPT !.pc = "store"]
                         ELSE IF @[b].held = old THEN [@[b] EXCEPT !.exposed = FALSE]
                         ELSE @[b]]]
    /\ UNCHANGED <<out, Elsewhere>>

\* assignedConfigLabels = labels
AssignedStore(c) ==
    /\ Go(c).pc = "store"
    /\ kubelet' = [kubelet EXCEPT !.labels[AssignedConfig] = Go(c).labels,
                                  !.last[AssignedConfig] = Latest(Go(c).source, @),
                                  !.go[c].pc = "with"]
    /\ UNCHANGED <<out, Elsewhere>>

\* AssignedConfig.With(assignedConfigLabels)
AssignedWith(c) ==
    /\ Go(c).pc = "with"
    /\ LET l == kubelet.labels[AssignedConfig]
       IN kubelet' = [kubelet EXCEPT
              !.gauge[AssignedConfig] = GaugeVec_With(@, l),
              !.go[c] = [@ EXCEPT !.pc = "set", !.held = l, !.exposed = TRUE]]
    /\ UNCHANGED <<out, Elsewhere>>

\* .Set(1) on the series With returned, and return nil
AssignedSet(c) ==
    /\ Go(c).pc = "set"
    /\ kubelet' = [kubelet EXCEPT
           !.gauge[AssignedConfig] =
               IF Go(c).exposed THEN Gauge_Set(@, Go(c).held, 1) ELSE @,
           !.go[c].pc = "done"]
    /\ out' = Returned("SetAssignedConfig", nil, <<Go(c).source>>, errorNil)
    /\ UNCHANGED Elsewhere

NextConfigConc ==
    \/ \E c \in Callers : AssignedCall(c)
    \/ \E c \in Callers : AssignedDelete(c)
    \/ \E c \in Callers : AssignedStore(c)
    \/ \E c \in Callers : AssignedWith(c)
    \/ \E c \in Callers : AssignedSet(c)

SpecConfigConc == InitConfigConc /\ [][NextConfigConc]_vars

\* every goroutine's call has returned, and at least two of the calls,
\* for different sources, succeeded
AllReturned ==
    /\ \A c \in Callers : Go(c).pc = "done"
    /\ \E b, c \in Callers :
        /\ Go(b).err.isNil /\ Go(c).err.isNil
        /\ Go(b).source # Go(c).source

\* C19: once concurrent SetAssignedConfig calls for different sources have all
\* returned, the AssignedConfig gauge exposes exactly one series, and the
\* tracked label set is the label set of that series.
C19_OneSeriesUnderConcurrency ==
    AllReturned =>
        DOMAIN kubelet.gauge[AssignedConfig] = {kubelet.labels[AssignedConfig]}

(***************************************************************************)
(* SpecRegister: goroutines calling Register.  registerMetrics is a        *)
(* sync.Once: the first goroutine to take its lock with done unset runs    *)
(* the function, one registration a step, and sets done when the function  *)
(* has returned; a goroutine that finds done set returns at once, and one  *)
(* that arrives in between waits for the lock.  The registry counts the    *)
(* registrations of each metric and collector.                             *)
(***************************************************************************)
\* the metrics the package declares, in the order of the var block
KubeletMetrics ==
    <<
      "NodeName", "ContainersPerPodCount", "PodWorkerDuration", "PodStartDuration",
      "CgroupManagerDuration", "PodWorkerStartDuration", "PLEGRelistDuration",
      "PLEGDiscardEvents", "PLEGRelistInterval", "RuntimeOperations",
      "RuntimeOperationsDuration", "RuntimeOperationsErrors", "Evictions",
      "EvictionStatsAge", "Preemptions", "DevicePluginRegistrationCount",
      "DevicePluginAllocationDuration", "DeprecatedPodWorkerLatency",
      "DeprecatedPodStartLatency", "DeprecatedCgroupManagerLatency",
      "DeprecatedPodWorkerStartLatency", "DeprecatedPLEGRelistLatency",
      "DeprecatedPLEGRelistInterval", "DeprecatedRuntimeOperations",
      "DeprecatedRuntimeOperationsLatency", "DeprecatedRuntimeOperationsErrors",
      "DeprecatedEvictionStatsAge", "DeprecatedDevicePluginRegistrationCount",
      "DeprecatedDevicePluginAllocationLatency", "AssignedConfig", "ActiveConfig",
      "LastKnownGoodConfig", "ConfigError", "RunPodSandboxDuration",
      "RunPodSandboxErrors", "RunningPodCount", "RunningContainerCount",
      "RemoveTooManyPodAtOnce"
    >>

\* the metrics Register registers whatever the feature gates are, in its order
Unconditional ==
    <<
      "NodeName", "PodWorkerDuration", "PodStartDuration", "CgroupManagerDuration",
      "PodWorkerStartDuration", "ContainersPerPodCount", "PLEGRelistDuration",
      "PLEGDiscardEvents", "PLEGRelistInterval", "RuntimeOperations",
      "RuntimeOperationsDuration", "RuntimeOperationsErrors", "Evictions",
      "EvictionStatsAge", "Preemptions", "DevicePluginRegistrationCount",
      "DevicePluginAllocationDuration", "DeprecatedPodWorkerLatency",
      "DeprecatedPodStartLatency", "DeprecatedCgroupManagerLatency",
      "DeprecatedPodWorkerStartLatency", "DeprecatedPLEGRelistLatency",
      "DeprecatedPLEGRelistInterval", "DeprecatedRuntimeOperations",
      "DeprecatedRuntimeOperationsLatency", "DeprecatedRuntimeOperationsErrors",
      "DeprecatedEvictionStatsAge", "DeprecatedDevicePluginRegistrationCount",
      "DeprecatedDevicePluginAllocationLatency", "RunningContainerCount",
      "RunningPodCount", "RemoveTooManyPodAtOnce"
    >>

\* the metrics Register registers when DynamicKubeletConfig is enabled
NodeConfigMetrics == <<AssignedConfig, ActiveConfig, LastKnownGoodConfig, "ConfigError">>

\* the collectors callers pass to Register
Collectors == {"logMetrics", "volumeStats"}

\* legacyregistry.MustRegister(m), legacyregistry.CustomMustRegister(m)
MustRegister(registry, m) ==
    IF m \in DOMAIN registry THEN [registry EXCEPT ![m] = @ + 1]
    ELSE (m :> 1) @@ registry

\* how often m has been registered
Registrations(m) ==
    IF m \in DOMAIN kubelet.registry THEN kubelet.registry[m] ELSE 0

\* the registrations the function passed to registerMetrics.Do makes, in order
RegisterBody(enabled, collectors) ==
    Unconditional \o (IF enabled THEN NodeConfigMetrics ELSE <<>>) \o collectors

NotCalling == [pc |-> "idle", collectors |-> <<>>, i |-> 0]

InitRegister ==
    /\ heap = CatalogHeap
    /\ unresolvablePredicateFailureErrors = UnresolvableInit
    /\ calls = [c \in Callers |-> Idle]
    /\ out = NoCall
    /\ made = CatalogMade
    /\ given = NoneGiven(Len(CatalogMade))
    /\ life = NoLife
    /\ \E enabled \in BOOLEAN :
        kubelet = [registry |-> <<>>,
                   DynamicKubeletConfig |-> enabled,
                   registerMetrics |-> [done |-> FALSE, m |-> nil],
                   returned |-> FALSE,
                   go |-> [c \in Callers |-> NotCalling]]

\* Register(containerCache, collectors...) is called
RegisterCall(c) ==
    /\ Go(c).pc = "idle"
    /\ \E collectors \in SeqsUpTo(Collectors, 1) :
        kubelet' = [kubelet EXCEPT !.go[c] = [pc |-> "do", collectors |-> collectors, i |-> 0]]
    /\ UNCHANGED <<out, Elsewhere>>

\* registerMetrics.Do: done is set, nothing to do
OnceDone(c) ==
    /\ Go(c).pc = "do"
    /\ kubelet.registerMetrics.done
    /\ kubelet' = [kubelet EXCEPT !.go[c].pc = "return"]
    /\ UNCHANGED <<out, Elsewhere>>

\* registerMetrics.Do: done is not set, so take the lock and look again
OnceLock(c) ==
    /\ Go(c).pc \in {"do", "wait"}
    /\ ~(Go(c).pc = "do" /\ kubelet.registerMetrics.done)
    /\ IF kubelet.registerMetrics.m # nil
       THEN kubelet' = [kubelet EXCEPT !.go[c].pc = "wait"]
       ELSE IF kubelet.registerMetrics.done
       THEN kubelet' = [kubelet EXCEPT !.go[c].pc = "return"]
       ELSE kubelet' = [kubelet EXCEPT !.registerMetrics.m = c,
                                       !.go[c] = [@ EXCEPT !.pc = "f", !.i = 1]]
    /\ UNCHANGED <<out, Elsewhere>>

\* the next registration of the function Register passes to Do
RegisterNext(c) ==
    /\ Go(c).pc = "f"
    /\ LET body == RegisterBody(kubelet.DynamicKubeletConfig, Go(c).collectors)
       IN /\ Go(c).i <= Len(body)
          /\ kubelet' = [kubelet EXCEPT !.registry = MustRegister(@, body[Go(c).i]),
                                        !.go[c].i = @ + 1]
    /\ UNCHANGED <<out, Elsewhere>>

\* the function has returned: Do sets done and releases the lock
OnceUnlock(c) ==
    /\ Go(c).pc = "f"
    /\ Go(c).i > Len(RegisterBody(kubelet.DynamicKubeletConfig, Go(c).collectors))
    /\ kubelet' = [kubelet EXCEPT !.registerMetrics = [done |-> TRUE, m |-> nil],
                                  !.go[c].pc = "return"]
    /\ UNCHANGED <<out, Elsewhere>>

\* Register returns
RegisterReturn(c) ==
    /\ Go(c).pc = "return"
    /\ kubelet' = [kubelet EXCEPT !.go[c] = NotCalling,
                                  !.returned = TRUE]
    /\ out' = Returned("Register", nil, Go(c).collectors, <<>>)
    /\ UNCHANGED Elsewhere

NextRegister ==
    \/ \E c \in Callers : RegisterCall(c)
    \/ \E c \in Callers : OnceDone(c)
    \/ \E c \in Callers : OnceLock(c)
    \/ \E c \in Callers : RegisterNext(c)
    \/ \E c \in Callers : OnceUnlock(c)
    \/ \E c \in Callers : RegisterReturn(c)

SpecRegister == InitRegister /\ [][NextRegister]_vars

\* the elements of the sequence s
Range(s) == {s[i] : i \in 1..Len(s)}

\* C20: nothing is registered twice; once a call to Register has returned,
\* every metric of the package has been registered exactly once; and a call
\* that starts after the first has finished registers nothing, its collectors
\* included.
C20_EveryMetricOnce ==
    /\ [](\A m \in DOMAIN kubelet.registry : kubelet.registry[m] <= 1)
    /\ [](kubelet.returned => \A m \in Range(KubeletMetrics) : Registrations(m) = 1)
    /\ [][kubelet.registerMetrics.done => kubelet'.registry = kubelet.registry]_vars

(***************************************************************************)
(* The frame of SetGpuType.                                                *)
(***************************************************************************)
\* the instance at a as its constructor call left it
Fresh(a) == Construct(made[a])

\* what the reading method op returns on the instance e
InsufficientReading(op, e) ==
    CASE op = "GetReason" -> InsufficientResourceError_GetReason(e)
      [] op = "Error" -> InsufficientResourceError_Error(e)
      [] op = "GetFreeAmount" -> GetFreeAmount(e)
      [] op = "GetInsufficientAmount" -> GetInsufficientAmount(e)

InsufficientReadings == {"GetReason", "Error", "GetFreeAmount", "GetInsufficientAmount"}

\* C21: after any sequence of SetGpuType calls an instance has the resource
\* name, requested, used and capacity its constructor was given, whatever the
\* arguments of the calls were, and GetReason, Error, GetFreeAmount and
\* GetInsufficientAmount return what they return on the fresh instance.
C21_OnlyGpuTypeChanges ==
    /\ \A a \in InsufficientAddrs :
        /\ heap[a].ResourceName = made[a].arg[1]
        /\ heap[a].requested = Requested(a)
        /\ heap[a].used = Used(a)
        /\ heap[a].capacity = Capacity(a)
        /\ heap[a] = [Fresh(a) EXCEPT !.GpuType = heap[a].GpuType]
    /\ (out.op \in InsufficientReadings /\ out.recv \in InsufficientAddrs) =>
           out.ret = InsufficientReading(out.op, Fresh(out.recv))

\* the insufficient amount was read from an instance whose device type had been
\* set, and it is that of the constructor's arguments
C21_Witness ==
    /\ out.op = "GetInsufficientAmount"
    /\ out.recv \in InsufficientAddrs
    /\ heap[out.recv].GpuType = "accel-y"
    /\ heap[out.recv].ResourceName = "cpu"
    /\ made[out.recv].arg = <<"cpu", I64(10), I64(6), I64(8)>>
    /\ out.ret = I64(8)

====
